---- MODULE Spec2Model ----
(***************************************************************************)
(* Model of pkg/controller/grafanadashboard/dashboard_controller.go:       *)
(* the GrafanaDashboard reconciler, the periodic resync goroutine and the  *)
(* controller-state goroutine started by add().                            *)
(*                                                                         *)
(* Two goroutines call Reconcile: the controller worker and the ticker.    *)
(* A call is split into one step for each access to what the callers       *)
(* share beside r.state: the cluster (Get, List), r.config (GetDashboards, *)
(* AddDashboard, SetPluginsFor, RemovePluginsFor, RemoveDashboard,         *)
(* AddConfigItem) and Grafana (folder, create-or-update, delete), and one  *)
(* step for each run of reads of r.state between two of them.              *)
(*                                                                         *)
(* r.state is written by a third goroutine without synchronisation.  The   *)
(* store of line 90 copies a struct of several words: it has a beginning   *)
(* (StateChange) and an end (StateStored).  Every read of a field of       *)
(* r.state is a read of its own: between the two it yields the old or the  *)
(* new value of the field or, for a string or a slice, a header with the   *)
(* pointer of one and the length of the other.  The reads of r.state that  *)
(* follow one another with no access to the cluster, r.config or Grafana   *)
(* between them belong to one step; as each of them chooses on its own     *)
(* what it sees, the step has the outcomes of reads made at different      *)
(* times around one store.                                                 *)
(***************************************************************************)
EXTENDS Integers, Sequences, FiniteSets, TLC

(* ------------------------------ bounds -------------------------------- *)
\* number of controller states delivered on ControllerEvents in one behaviour
MaxStates == 1
\* number of changes of GrafanaDashboard resources in one behaviour
MaxChanges == 1
\* number of Reconcile calls in one behaviour
MaxCalls == 2
\* number of steps of Reconcile that read r.state while it is being stored
MaxRaces == 2
\* number of failing calls (cluster API or Grafana API) in one behaviour
MaxFailures == 1

(* ----------------------------- constants ------------------------------ *)
\* config.RequeueDelay, in seconds
RequeueDelay == 10

(* ------------------------------ universe ------------------------------ *)
\* the namespace handed to add(): the ticker resyncs this namespace
OperatorNamespace == "ns1"

AllKeys == << <<"ns1", "a">>, <<"ns1", "b">>, <<"ns2", "d">> >>
Keys == {AllKeys[n] : n \in 1..Len(AllKeys)}

\* labels of the Namespace objects of the cluster
NamespaceLabels(ns) == IF ns = "ns1" THEN {"env=prod"} ELSE {"env=staging"}

\* the callers of Reconcile: the controller worker and the ticker goroutine
Procs == {"worker", "ticker"}

\* errors.IsConflict tells a conflict from the other errors; the call that
\* can fail with a conflict is the write to Grafana
ErrKinds == {"conflict", "other"}
ErrKindsAt(call) == IF call = "Create" THEN ErrKinds ELSE {"other"}

\* a metav1.LabelSelector (matchLabels only); valid = FALSE stands for a
\* selector LabelSelectorAsSelector rejects
Sel(ls) == [matchLabels |-> ls, valid |-> TRUE]

\* []*metav1.LabelSelector as its header and its elements: isNil tells
\* whether the pointer is nil, items are the elements the length covers, and
\* wild tells that the length reaches beyond what the pointer holds (a header
\* read while it was being stored)
NilSelectors == [isNil |-> TRUE, items |-> << >>, wild |-> FALSE]
Selectors(s) == [isNil |-> FALSE, items |-> s, wild |-> FALSE]

\* *metav1.LabelSelector: a nil pointer or a selector
NilSelector == [isNil |-> TRUE, matchLabels |-> {}, valid |-> TRUE]
PtrSel(ls) == [isNil |-> FALSE, matchLabels |-> ls, valid |-> TRUE]

\* common.ControllerState
ControllerState(ready, url, user, pw, sels, nssel) ==
  [GrafanaReady |-> ready, AdminUrl |-> url, AdminUsername |-> user,
   AdminPassword |-> pw, DashboardSelectors |-> sels,
   DashboardNamespaceSelector |-> nssel]

\* common.ControllerState{} : the value newReconciler stores
ZeroState == ControllerState(FALSE, "", "", "", NilSelectors, NilSelector)

AppSelectors == Selectors(<< Sel({"team=obs"}), Sel({"app=grafana"}) >>)

\* the controller states the grafana controller delivers on ControllerEvents
Snapshots ==
  { ControllerState(TRUE, "http://grafana", "admin", "secret", AppSelectors, NilSelector),
    ControllerState(TRUE, "http://grafana", "admin", "secret", AppSelectors, PtrSel({"env=prod"})),
    ControllerState(TRUE, "http://grafana", "admin", "secret", NilSelectors, NilSelector),
    ControllerState(TRUE, "http://grafana", "admin", "", AppSelectors, NilSelector),
    ControllerState(FALSE, "http://grafana", "admin", "secret", AppSelectors, NilSelector) }

\* a GrafanaDashboard resource of the cluster; Json 0 is malformed content
NoResource == [present |-> FALSE, Json |-> 0, Labels |-> {}]
Resource(json, labels) == [present |-> TRUE, Json |-> json, Labels |-> labels]

\* the values a change of the cluster gives the resource of key k: a changes
\* content, becomes malformed, goes out of scope or disappears, and comes
\* back; b and d stay as they are
ResourceValues(k) ==
  IF k = <<"ns1", "a">>
    THEN {Resource(1, {"app=grafana"}), Resource(2, {"app=grafana"}), Resource(0, {"app=grafana"}),
          Resource(1, {"team=web"}), NoResource}
  ELSE {Resource(1, {"app=grafana"})}

\* the resources the work queue holds requests for
Requested == {<<"ns1", "a">>, <<"ns2", "d">>}

\* what a call found when it was entered: what its gates read in r.state
\* (whether Grafana is ready, whether the URL, the username and the password
\* are all there, whether the dashboard selectors are nil), the values of
\* r.state a read could meet at that time, and the dashboards of r.config
AtEntry(st, stored, reg) ==
  [ready |-> st.GrafanaReady,
   credentials |-> st.AdminUrl # "" /\ st.AdminUsername # "" /\ st.AdminPassword # "",
   nilSelectors |-> st.DashboardSelectors.isNil,
   snapshots |-> stored,
   registry |-> reg]

\* reconcile.Result together with the returned error
Result(requeue, after, err) == [Requeue |-> requeue, RequeueAfter |-> after, err |-> err]
NoResult == [Requeue |-> FALSE, RequeueAfter |-> -1, err |-> FALSE]

VARIABLES
  state,        \* r.state as last stored in full
  storing,      \* the value the ControllerEvents goroutine is storing into
                \* r.state: empty, or the one value on its way
  cluster,      \* GrafanaDashboard resources of the cluster, by (namespace, name)
  registry,     \* r.config dashboards: set of GrafanaDashboardRef
  plugins,      \* r.config plugin metadata: (namespace, name) that have some
  synced,       \* r.config item ConfigGrafanaDashboardsSynced
  remote,       \* Grafana: UIDs of the dashboards it holds
  folders,      \* Grafana: namespaces that have a folder
  pc,           \* per caller: position in Reconcile
  req,          \* per caller: the request being processed
  client,       \* per caller: the GrafanaClient getClient returned
  instance,     \* per caller: the GrafanaDashboard r.client.Get returned
  known,        \* per caller: knownDashboards
  list,         \* per caller: namespaceDashboards.Items
  todel,        \* per caller: dashboardsToDelete
  idx,          \* per caller: index of the current loop
  ret,          \* per caller: what the last Reconcile call returned
  entry,        \* per caller: r.state as the gates of the last call read it
                \* and the dashboards of r.config when it was entered
  trace,        \* per caller: calls, events and config writes of the last call
  nst, nch, ncalls, nfail, nrace, \* controller states, resource changes,
                \* Reconcile calls, failures and racing reads so far
  lastpass,     \* per namespace: how its last pass ended, NoPass once anything
                \* has changed since that pass began
  prior,        \* per caller: lastpass of the namespace when its pass began
  clean         \* per caller: nothing changed and no other call ran since its
                \* call began

vars == << state, storing, cluster, registry, plugins, synced, remote, folders,
           pc, req, client, instance, known, list, todel, idx, ret, entry, trace,
           nst, nch, ncalls, nfail, nrace, lastpass, prior, clean >>

env == << state, storing, cluster >>
config == << registry, plugins, synced >>
grafana == << remote, folders >>
locals == << client, instance, known, list, todel, idx >>
hist == << lastpass, prior, clean >>

\* a step reads r.state: it counts as a racing read while a store is under way
ReadsState ==
  /\ storing # {} => nrace < MaxRaces
  /\ nrace' = IF storing # {} THEN nrace + 1 ELSE nrace

(* ------------------------- pure helpers -------------------------------- *)
\* one entry of a caller's trace: a call with its outcome, an event, a log
\* line or a write to r.config
Ev(op, key, ok) == [op |-> op, key |-> key, ok |-> ok]

KeyOf(item) == <<item.Namespace, item.Name>>

\* no GrafanaDashboard object
NoInstance == [Namespace |-> "", Name |-> "", Json |-> 0, Labels |-> {}]

\* the GrafanaDashboard object read from the cluster
Item(k) == [Namespace |-> k[1], Name |-> k[2],
            Json |-> cluster[k].Json, Labels |-> cluster[k].Labels]

(* ---------------------- unsynchronised reads of r.state ---------------- *)
\* the values a read of r.state can meet: the one stored last and, while a
\* store is under way, the one being stored
Stored == {state} \cup storing

\* a string whose header has a length and a pointer that do not belong
\* together
WildString == "<wild>"

\* a string header with the pointer of x and the length of y
TornString(x, y) == IF y = "" THEN "" ELSE IF x = y THEN x ELSE WildString

\* a slice header with the pointer of x and the length of y
TornSlice(x, y) ==
  [isNil |-> x.isNil,
   items |-> IF Len(y.items) < Len(x.items) THEN SubSeq(x.items, 1, Len(y.items)) ELSE x.items,
   wild |-> Len(y.items) > Len(x.items)]

\* what a read of each field of r.state can yield
ReadReady == {x.GrafanaReady : x \in Stored}
ReadUrl == {TornString(x.AdminUrl, y.AdminUrl) : x \in Stored, y \in Stored}
ReadUsername == {TornString(x.AdminUsername, y.AdminUsername) : x \in Stored, y \in Stored}
ReadPassword == {TornString(x.AdminPassword, y.AdminPassword) : x \in Stored, y \in Stored}
ReadSelectors == {TornSlice(x.DashboardSelectors, y.DashboardSelectors) : x \in Stored, y \in Stored}
ReadNamespaceSelector == {x.DashboardNamespaceSelector : x \in Stored}

\* r.state as a sequence of reads that takes each field once can see it
Views ==
  {ControllerState(r, u, n, w, s, ns) :
     r \in ReadReady, u \in ReadUrl, n \in ReadUsername, w \in ReadPassword,
     s \in ReadSelectors, ns \in ReadNamespaceSelector}

\* getClient without the check of the password
getClient_IgnoresPassword(st) ==
  IF st.AdminUrl = "" \/ st.AdminUsername = "" THEN "err"
  ELSE IF WildString \in {st.AdminUrl, st.AdminUsername, st.AdminPassword} THEN "wild"
  ELSE "ok"

\* getClient on the fields as read: "err" for an empty URL, username or
\* password, else the client: "ok", or "wild" when one of the strings handed
\* to NewGrafanaClient has a header that was read while it was being stored
getClient(st) ==
  IF st.AdminUrl = "" \/ st.AdminUsername = "" \/ st.AdminPassword = "" THEN "err"
  ELSE IF WildString \in {st.AdminUrl, st.AdminUsername, st.AdminPassword} THEN "wild"
  ELSE "ok"

\* selector.Matches(labels.Set(ls)) for a matchLabels selector
SelectorMatches(sel, ls) == sel.matchLabels \subseteq ls

\* selector.Empty()
SelectorEmpty(sel) == sel.matchLabels = {}

\* GrafanaDashboard.MatchesSelectors: the disjunction over the selectors,
\* an invalid selector ends the loop with (false, err)
RECURSIVE MatchesSelectorsFrom(_, _, _, _)
MatchesSelectorsFrom(ls, s, n, acc) ==
  IF n > Len(s) THEN [match |-> acc, err |-> FALSE]
  ELSE IF ~s[n].valid THEN [match |-> FALSE, err |-> TRUE]
  ELSE MatchesSelectorsFrom(ls, s, n + 1, acc \/ SelectorMatches(s[n], ls))

MatchesSelectors(ls, s) == MatchesSelectorsFrom(ls, s, 1, FALSE)

\* isMatch matching everything while the selectors are nil
isMatch_FailOpen(s1, s2, item) ==
  IF s1.isNil THEN [match |-> TRUE, panic |-> FALSE]
  ELSE IF s2.wild THEN [match |-> FALSE, panic |-> TRUE]
  ELSE LET m == MatchesSelectors(item.Labels, s2.items)
       IN [match |-> IF m.err THEN FALSE ELSE m.match, panic |-> FALSE]

\* isMatch: s1 is r.state.DashboardSelectors as the nil test reads it, s2 as
\* the call of MatchesSelectors reads it; ranging over a slice whose length
\* reaches beyond its elements is a fault (panic)
isMatch(s1, s2, item) ==
  IF s1.isNil THEN [match |-> FALSE, panic |-> FALSE]
  ELSE IF s2.wild THEN [match |-> FALSE, panic |-> TRUE]
  ELSE LET m == MatchesSelectors(item.Labels, s2.items)
       IN [match |-> IF m.err THEN FALSE ELSE m.match, panic |-> FALSE]

\* checkNamespaceLabels reporting a match whenever the lookup succeeds
checkNamespaceLabels_AlwaysMatch(nssel, item, getOk) ==
  IF ~getOk THEN [match |-> FALSE, err |-> TRUE]
  ELSE IF ~nssel.valid THEN [match |-> FALSE, err |-> TRUE]
  ELSE [match |-> TRUE, err |-> FALSE]

\* checkNamespaceLabels; getOk is the outcome of reading the Namespace object
\* and nssel is r.state.DashboardNamespaceSelector as line 170 reads it.
\* LabelSelectorAsSelector(nil) is labels.Nothing(), which is not empty and
\* matches nothing.
checkNamespaceLabels(nssel, item, getOk) ==
  IF ~getOk THEN [match |-> FALSE, err |-> TRUE]
  ELSE IF nssel.isNil THEN [match |-> FALSE, err |-> FALSE]
  ELSE IF ~nssel.valid THEN [match |-> FALSE, err |-> TRUE]
  ELSE [match |-> \/ SelectorEmpty(nssel)
                  \/ SelectorMatches(nssel, NamespaceLabels(item.Namespace)),
        err |-> FALSE]

\* the content hash of a dashboard
Fingerprint(json) == IF json = 1 THEN "h1" ELSE IF json = 2 THEN "h2" ELSE "h0"

\* pipeline.ProcessDashboard(knownHash): an error for malformed content,
\* a nil payload when the hash is the known one, the payload otherwise
ProcessDashboard(item, knownHash) ==
  IF item.Json = 0 THEN [err |-> TRUE, isNil |-> TRUE, Hash |-> ""]
  ELSE IF Fingerprint(item.Json) = knownHash
       THEN [err |-> FALSE, isNil |-> TRUE, Hash |-> knownHash]
       ELSE [err |-> FALSE, isNil |-> FALSE, Hash |-> Fingerprint(item.Json)]

\* GrafanaDashboardRef
Ref(ns, name, uid, hash) == [Namespace |-> ns, Name |-> name, UID |-> uid, Hash |-> hash]

\* the UID Grafana knows the dashboard of a resource by
UIDOf(item) == <<item.Namespace, item.Name>>

\* r.config.GetDashboards(namespace)
GetDashboards(reg, ns) == {e \in reg : e.Namespace = ns}

\* r.config.AddDashboard(dashboard): replaces the entry of the same identity
AddDashboard(reg, item) ==
  {e \in reg : ~(e.Namespace = item.Namespace /\ e.Name = item.Name)}
    \cup {Ref(item.Namespace, item.Name, UIDOf(item), Fingerprint(item.Json))}

\* r.config.RemoveDashboard(namespace, name)
RemoveDashboard(reg, ns, name) == {e \in reg : ~(e.Namespace = ns /\ e.Name = name)}

\* r.config.SetPluginsFor(dashboard) / RemovePluginsFor(namespace, name)
SetPluginsFor(pl, item) == pl \cup {KeyOf(item)}
RemovePluginsFor(pl, ns, name) == pl \ {<<ns, name>>}

\* r.client.List with ListOptions{Namespace: ns}
List(ns) ==
  LET ks == SelectSeq(AllKeys, LAMBDA k : k[1] = ns /\ cluster[k].present)
  IN [n \in 1..Len(ks) |-> Item(ks[n])]

\* the closure inNamespace of reconcileDashboards
inNamespace(ref, items) ==
  \E n \in 1..Len(items) : items[n].Name = ref.Name /\ items[n].Namespace = ref.Namespace

\* findHash comparing the name of the item with the namespace of the entry
findHash_WrongField(item, kn) ==
  IF \E e \in kn : item.Name = e.Namespace /\ item.Namespace = e.Namespace
  THEN (CHOOSE e \in kn : item.Name = e.Namespace /\ item.Namespace = e.Namespace).Hash
  ELSE ""

\* the closure findHash of reconcileDashboards
findHash(item, kn) ==
  IF \E e \in kn : item.Name = e.Name /\ item.Namespace = e.Namespace
  THEN (CHOOSE e \in kn : item.Name = e.Name /\ item.Namespace = e.Namespace).Hash
  ELSE ""

\* DashboardsToDelete with the negation of inNamespace dropped
DashboardsToDelete_Found(kn, items) ==
  LET gone == {e \in kn : inNamespace(e, items)}
      ks == SelectSeq(AllKeys, LAMBDA k : \E e \in gone : KeyOf(e) = k)
  IN [n \in 1..Len(ks) |-> CHOOSE e \in gone : KeyOf(e) = ks[n]]

\* dashboardsToDelete: the known dashboards not found in the namespace
DashboardsToDelete(kn, items) ==
  LET gone == {e \in kn : ~inNamespace(e, items)}
      ks == SelectSeq(AllKeys, LAMBDA k : \E e \in gone : KeyOf(e) = k)
  IN [n \in 1..Len(ks) |-> CHOOSE e \in gone : KeyOf(e) = ks[n]]

\* manageError: the warning event, the test errors.IsConflict with its
\* answer, and the error log unless the error is a conflict
manageError(k, kind) ==
  << Ev("event:Warning", k, TRUE), Ev("errors.IsConflict", k, kind = "conflict") >>
    \o (IF kind = "conflict" THEN << >> ELSE << Ev("log.Error:manageError", k, TRUE) >>)

\* A step makes its calls one after the other and stops at the first that
\* fails: its failure is the pair of the failing call and the kind of error,
\* or NoFailure; OutcomeAt gives the outcome of the call named call.
NoFailure == <<"none", "ok">>
OutcomeAt(f, call) == IF f[1] = call THEN f[2] ELSE "ok"
Failures(calls) == {f \in calls \X ErrKinds : f[2] \in ErrKindsAt(f[1])}

(* ------------------------------ Reconcile ------------------------------ *)

\* the calls of a pass that can fail and be retried
RetriedCalls == {"checkNamespaceLabels", "GetOrCreateNamespaceFolder",
                 "CreateOrUpdateDashboard", "DeleteDashboardByUID"}

\* some call of the trace t failed
CallFailed(t) == \E n \in 1..Len(t) : t[n].op \in RetriedCalls /\ ~t[n].ok

\* the calls of the apply loop whose failure leaves a dashboard unsubmitted
ApplyCalls == {"checkNamespaceLabels", "GetOrCreateNamespaceFolder", "CreateOrUpdateDashboard"}

\* the dashboards for which a call of the apply loop failed in the trace t
Unapplied(t) == {k \in Keys : \E n \in 1..Len(t) :
                               t[n].key = k /\ t[n].op \in ApplyCalls /\ ~t[n].ok}

\* how the last pass over a namespace ended: ran tells whether there is one
\* to speak of, failed holds the dashboards it left unsubmitted
NoPass == [ran |-> FALSE, failed |-> {}]
PassRecord(t) == [ran |-> TRUE, failed |-> Unapplied(t)]

\* the caller q is inside Reconcile
InCall(q) == pc[q] \notin {"idle", "returned", "panic"}

\* the caller q is inside reconcileDashboards
InPass(q) == InCall(q) /\ pc[q] \notin {"get", "match"}

\* the fields of the view v that the gates of a call for the request r do
\* not read are taken as stored last
GateView(v, r) ==
  LET creds == v.GrafanaReady
      sels == creds /\ getClient(v) # "err" /\ r.Name # ""
  IN ControllerState(v.GrafanaReady,
                     IF creds THEN v.AdminUrl ELSE state.AdminUrl,
                     IF creds THEN v.AdminUsername ELSE state.AdminUsername,
                     IF creds THEN v.AdminPassword ELSE state.AdminPassword,
                     IF sels THEN v.DashboardSelectors ELSE state.DashboardSelectors,
                     state.DashboardNamespaceSelector)

\* r.state as the gates of a call for the request r can read it
GateViews(r) == {GateView(v, r) : v \in Views}

\* ReconcileGate without the readiness gate
ReconcileGate_NoReadyGate(v, r) ==
  LET cl == getClient(v)
      out(nx, res) == [next |-> nx, ret |-> res,
                       client |-> IF nx = "return" THEN "none" ELSE cl]
  IN IF cl = "err" THEN out("return", Result(FALSE, RequeueDelay, FALSE))
     ELSE IF r.Name = "" THEN out("pass", NoResult)
     ELSE IF v.DashboardSelectors.isNil
       THEN out("return", Result(FALSE, RequeueDelay, FALSE))
     ELSE out("get", NoResult)

\* Reconcile, lines 113-134: the readiness gate, the client and the selectors
\* gate on the fields v of r.state as lines 115-132 read them.  next tells
\* whether the call returns, goes on to reconcileDashboards (empty name) or
\* to the lookup of the instance.
ReconcileGate(v, r) ==
  LET cl == getClient(v)
      out(nx, res) == [next |-> nx, ret |-> res,
                       client |-> IF nx = "return" THEN "none" ELSE cl]
  IN IF v.GrafanaReady = FALSE THEN out("return", Result(FALSE, 0, FALSE))
     ELSE IF cl = "err" THEN out("return", Result(FALSE, RequeueDelay, FALSE))
     ELSE IF r.Name = "" THEN out("pass", NoResult)
     ELSE IF v.DashboardSelectors.isNil
       THEN out("return", Result(FALSE, RequeueDelay, FALSE))
     ELSE out("get", NoResult)

\* GetInstance returning when the instance is not found
GetInstance_NotFoundReturns(k, og) ==
  LET out(nx, res, t, f) == [next |-> nx, ret |-> res, trace |-> t, failed |-> f]
  IN IF og # "ok"
       THEN out("return", Result(FALSE, 0, TRUE), << Ev("Get", k, FALSE) >>, TRUE)
     ELSE IF ~cluster[k].present
       THEN out("return", Result(FALSE, 0, FALSE), << Ev("Get:NotFound", k, FALSE) >>, FALSE)
     ELSE out("match", NoResult, << Ev("Get", k, TRUE) >>, FALSE)

\* Reconcile, lines 137-149: r.client.Get of the instance of key k with the
\* outcome og: an instance that is not found sends the call on to
\* reconcileDashboards, any other error ends it, an instance that is found
\* goes to isMatch
GetInstance(k, og) ==
  LET out(nx, res, t, f) == [next |-> nx, ret |-> res, trace |-> t, failed |-> f]
  IN IF og # "ok"
       THEN out("return", Result(FALSE, 0, TRUE), << Ev("Get", k, FALSE) >>, TRUE)
     ELSE IF ~cluster[k].present
       THEN out("pass", NoResult, << Ev("Get:NotFound", k, FALSE) >>, FALSE)
     ELSE out("match", NoResult, << Ev("Get", k, TRUE) >>, FALSE)

\* The record of a call (ret, entry, trace and the locals) is kept until its
\* caller has taken the result, which it does before anything else happens:
\* what a finished call did is observed in the state its last step leaves.
Observed == \A q \in Procs : pc[q] # "returned"

\* a fault (panic) in a goroutine ends the operator
Running == \A q \in Procs : pc[q] # "panic"

NoLocals(p) ==
  /\ client' = [client EXCEPT ![p] = "none"]
  /\ instance' = [instance EXCEPT ![p] = NoInstance]
  /\ known' = [known EXCEPT ![p] = {}]
  /\ list' = [list EXCEPT ![p] = << >>]
  /\ todel' = [todel EXCEPT ![p] = << >>]
  /\ idx' = [idx EXCEPT ![p] = 0]

\* the call of p goes on to reconcileDashboards: no other pass runs alone
\* any more
PassBegins(p) == clean' = [q \in Procs |-> q = p /\ clean[p]]

\* the caller p enters Reconcile(r), lines 113-134: the reads of r.state of
\* the gates and of getClient
Reconcile(p, r) ==
  /\ Observed /\ Running
  /\ ReadsState
  /\ pc[p] = "idle"
  /\ ncalls < MaxCalls
  /\ \E v \in GateViews(r) :
       LET g == ReconcileGate(v, r)
           fresh == storing = {} /\ \A q \in Procs \ {p} : ~InPass(q)
       IN /\ ncalls' = ncalls + 1
          /\ req' = [req EXCEPT ![p] = r]
          /\ entry' = [entry EXCEPT ![p] = AtEntry(v, Stored, registry)]
          /\ ret' = [ret EXCEPT ![p] = g.ret]
          /\ client' = [client EXCEPT ![p] = g.client]
          /\ pc' = [pc EXCEPT ![p] = IF g.next = "return" THEN "returned"
                                     ELSE IF g.next = "pass" THEN "known" ELSE "get"]
          /\ prior' = [prior EXCEPT ![p] = IF fresh THEN lastpass[r.Namespace] ELSE NoPass]
          /\ clean' = IF g.next = "pass" THEN [q \in Procs |-> q = p /\ fresh]
                      ELSE [clean EXCEPT ![p] = fresh]
  /\ UNCHANGED << env, config, grafana, instance, known, list, todel, idx, trace,
                  nst, nch, nfail, lastpass >>

\* Reconcile, lines 137-149: the lookup of the instance in the cluster
InstanceLookup(p) ==
  /\ Observed /\ Running
  /\ pc[p] = "get"
  /\ \E f \in {NoFailure} \cup Failures({"Get"}) :
       LET k == <<req[p].Namespace, req[p].Name>>
           g == GetInstance(k, OutcomeAt(f, "Get"))
       IN /\ g.failed <=> f # NoFailure
          /\ g.failed => nfail < MaxFailures
          /\ nfail' = IF g.failed THEN nfail + 1 ELSE nfail
          /\ trace' = [trace EXCEPT ![p] = @ \o g.trace]
          /\ ret' = [ret EXCEPT ![p] = g.ret]
          /\ instance' = [instance EXCEPT ![p] = IF g.next = "match" THEN Item(k) ELSE NoInstance]
          /\ client' = [client EXCEPT ![p] = IF g.next = "return" THEN "none" ELSE @]
          /\ pc' = [pc EXCEPT ![p] = IF g.next = "return" THEN "returned"
                                     ELSE IF g.next = "pass" THEN "known" ELSE "match"]
          /\ IF g.next = "pass" THEN PassBegins(p) ELSE clean' = clean
  /\ UNCHANGED << env, config, grafana, req, known, list, todel, idx, entry,
                  nst, nch, ncalls, nrace, lastpass, prior >>

\* Reconcile, lines 151-157: isMatch on the instance, which reads
\* r.state.DashboardSelectors at lines 346 and 350; an instance out of scope
\* ends the call, one in scope goes on to reconcileDashboards
MatchInstance(p) ==
  /\ Observed /\ Running
  /\ ReadsState
  /\ pc[p] = "match"
  /\ \E s1 \in ReadSelectors, s2 \in ReadSelectors :
       LET k == <<req[p].Namespace, req[p].Name>>
           m == isMatch(s1, s2, instance[p])
       IN /\ trace' = [trace EXCEPT ![p] =
                         @ \o (IF m.panic THEN << Ev("panic", k, FALSE) >>
                               ELSE << Ev("isMatch:request", k, m.match) >>)]
          /\ ret' = [ret EXCEPT ![p] = IF ~m.panic /\ ~m.match THEN Result(FALSE, 0, FALSE) ELSE @]
          /\ client' = [client EXCEPT ![p] = IF ~m.panic /\ ~m.match THEN "none" ELSE @]
          /\ pc' = [pc EXCEPT ![p] = IF m.panic THEN "panic"
                                     ELSE IF m.match THEN "known" ELSE "returned"]
          /\ IF ~m.panic /\ m.match THEN PassBegins(p) ELSE clean' = clean
  /\ instance' = [instance EXCEPT ![p] = NoInstance]
  /\ UNCHANGED << env, config, grafana, req, known, list, todel, idx, entry,
                  nst, nch, ncalls, nfail, lastpass, prior >>

\* reconcileDashboards, line 179: knownDashboards
GetKnownDashboards(p) ==
  /\ Observed /\ Running
  /\ pc[p] = "known"
  /\ known' = [known EXCEPT ![p] = GetDashboards(registry, req[p].Namespace)]
  /\ pc' = [pc EXCEPT ![p] = "list"]
  /\ UNCHANGED << env, config, grafana, req, client, instance, list, todel, idx, ret, entry,
                  trace, nst, nch, ncalls, nfail, hist, nrace >>

\* where a pass goes when the apply loop is to handle item m next
AfterApply(items, dels, m) ==
  IF m <= Len(items) THEN "apply" ELSE IF Len(dels) > 0 THEN "delete" ELSE "finish"

\* ListDashboards returning no error when the listing fails
ListDashboards_ErrorDropped(p) ==
  /\ Observed /\ Running
  /\ pc[p] = "list"
  /\ \E f \in {NoFailure} \cup Failures({"List"}) :
       LET k == <<req[p].Namespace, req[p].Name>>
           items == List(req[p].Namespace)
           dels == DashboardsToDelete(known[p], items)
       IN IF f # NoFailure
          THEN /\ nfail < MaxFailures
               /\ nfail' = nfail + 1
               /\ ret' = [ret EXCEPT ![p] = Result(FALSE, 0, FALSE)]
               /\ trace' = [trace EXCEPT ![p] = @ \o << Ev("List", k, FALSE) >>]
               /\ pc' = [pc EXCEPT ![p] = "returned"]
               /\ NoLocals(p)
          ELSE /\ nfail' = nfail
               /\ ret' = ret
               /\ trace' = [trace EXCEPT ![p] = @ \o << Ev("List", k, TRUE) >>]
               /\ list' = [list EXCEPT ![p] = items]
               /\ todel' = [todel EXCEPT ![p] = dels]
               /\ idx' = [idx EXCEPT ![p] = 1]
               /\ pc' = [pc EXCEPT ![p] = AfterApply(items, dels, 1)]
               /\ UNCHANGED << client, instance, known >>
  /\ UNCHANGED << env, config, grafana, req, entry, nst, nch, ncalls, hist, nrace >>

\* reconcileDashboards, lines 180-221: the listing, which ends the call with
\* its error when it fails, and the delete set
ListDashboards(p) ==
  /\ Observed /\ Running
  /\ pc[p] = "list"
  /\ \E f \in {NoFailure} \cup Failures({"List"}) :
       LET k == <<req[p].Namespace, req[p].Name>>
           items == List(req[p].Namespace)
           dels == DashboardsToDelete(known[p], items)
       IN IF f # NoFailure
          THEN /\ nfail < MaxFailures
               /\ nfail' = nfail + 1
               /\ ret' = [ret EXCEPT ![p] = Result(FALSE, 0, TRUE)]
               /\ trace' = [trace EXCEPT ![p] = @ \o << Ev("List", k, FALSE) >>]
               /\ pc' = [pc EXCEPT ![p] = "returned"]
               /\ NoLocals(p)
          ELSE /\ nfail' = nfail
               /\ ret' = ret
               /\ trace' = [trace EXCEPT ![p] = @ \o << Ev("List", k, TRUE) >>]
               /\ list' = [list EXCEPT ![p] = items]
               /\ todel' = [todel EXCEPT ![p] = dels]
               /\ idx' = [idx EXCEPT ![p] = 1]
               /\ pc' = [pc EXCEPT ![p] = AfterApply(items, dels, 1)]
               /\ UNCHANGED << client, instance, known >>
  /\ UNCHANGED << env, config, grafana, req, entry, nst, nch, ncalls, hist, nrace >>

(* ------------------------- one loop iteration -------------------------- *)
\* The head of the body of the loop over namespaceDashboards.Items for the
\* dashboard d, lines 224-247: isMatch and ProcessDashboard, kn being the
\* known dashboards.  s1 and s2 are r.state.DashboardSelectors as lines 346
\* and 350 read it.  next tells how the iteration goes on: "skip" to the next
\* dashboard, "plug" to SetPluginsFor for an unchanged dashboard, "nscheck"
\* to the check of the namespace, or "panic"; failed tells whether the
\* iteration ended in an error.
ApplyOne(s1, s2, d, kn) ==
  LET k == KeyOf(d)
      m == isMatch(s1, s2, d)
      processed == ProcessDashboard(d, findHash(d, kn))
      out(nx, t, fa) == [next |-> nx, trace |-> t, failed |-> fa]
      t1 == << Ev("isMatch", k, TRUE) >>
  IN IF m.panic THEN out("panic", << Ev("panic", k, FALSE) >>, FALSE)
     ELSE IF ~m.match THEN out("skip", << Ev("isMatch", k, FALSE) >>, FALSE)
     ELSE IF processed.err
       THEN out("skip", t1 \o << Ev("ProcessDashboard:err", k, FALSE), Ev("log.Error", k, TRUE) >>
                           \o manageError(k, "other"), TRUE)
     ELSE IF processed.isNil
       THEN out("plug", t1 \o << Ev("ProcessDashboard:nil", k, TRUE) >>, FALSE)
     ELSE out("nscheck", t1 \o << Ev("ProcessDashboard:payload", k, TRUE) >>, FALSE)

\* lines 249-250 and 162-168: the test of r.state.DashboardNamespaceSelector
\* as line 249 reads it (n1) and the lookup of the Namespace object with the
\* outcome on.  next is "folder" when there is no namespace selector,
\* "nsmatch" when the Namespace was read, "skip" when the lookup failed.
NamespaceGet(n1, d, on) ==
  LET k == KeyOf(d)
      out(nx, t, fa) == [next |-> nx, trace |-> t, failed |-> fa]
  IN IF n1.isNil THEN out("folder", << >>, FALSE)
     ELSE IF on # "ok"
       THEN out("skip", << Ev("checkNamespaceLabels", k, FALSE) >> \o manageError(k, on), TRUE)
     ELSE out("nsmatch", << >>, FALSE)

\* lines 170-174 and 251-259: checkNamespaceLabels on the Namespace object
\* that was read and r.state.DashboardNamespaceSelector as line 170 reads it
\* (n2); an error or a mismatch ends the iteration
NamespaceCheck(n2, d) ==
  LET k == KeyOf(d)
      nsl == checkNamespaceLabels(n2, d, TRUE)
      out(nx, t, fa) == [next |-> nx, trace |-> t, failed |-> fa]
  IN IF nsl.err
       THEN out("skip", << Ev("checkNamespaceLabels", k, FALSE) >> \o manageError(k, "other"),
                TRUE)
     ELSE IF ~nsl.match
       THEN out("skip", << Ev("checkNamespaceLabels", k, TRUE),
                           Ev("matchesNamespaceLabels", k, FALSE) >>, FALSE)
     ELSE out("folder", << Ev("checkNamespaceLabels", k, TRUE),
                           Ev("matchesNamespaceLabels", k, TRUE) >>, FALSE)

\* lines 262-267: GetOrCreateNamespaceFolder through the client cl with the
\* outcome of; a client built from a string read while it was stored faults
FolderOne(d, cl, of) ==
  LET k == KeyOf(d)
      out(nx, t, fo, fa) == [next |-> nx, trace |-> t, folder |-> fo, failed |-> fa]
  IN IF cl = "wild" THEN out("panic", << Ev("panic", k, FALSE) >>, FALSE, FALSE)
     ELSE IF of # "ok"
       THEN out("skip", << Ev("GetOrCreateNamespaceFolder", k, FALSE), Ev("log.Error", k, TRUE) >>
                           \o manageError(k, of), FALSE, TRUE)
     ELSE out("create", << Ev("GetOrCreateNamespaceFolder", k, TRUE) >>, TRUE, FALSE)

\* LoopNext leaving the loop after a failed iteration (break for continue)
LoopNext_Break(items, n, failed) == IF failed THEN Len(items) + 1 ELSE n + 1

\* the index of the item the apply loop handles after item n, failed telling
\* whether the iteration for item n ended in an error: every branch of
\* the body ends the iteration only (continue), so the next item follows
LoopNext(items, n, failed) == n + 1

\* the caller p ends the iteration for the current item
EndIteration(p, failed) ==
  LET m == LoopNext(list[p], idx[p], failed)
  IN /\ pc' = [pc EXCEPT ![p] = AfterApply(list[p], todel[p], m)]
     /\ idx' = [idx EXCEPT ![p] = IF m <= Len(list[p]) THEN m ELSE 1]

\* the head of one iteration of the loop over namespaceDashboards.Items,
\* lines 224-247: isMatch, which reads r.state, and ProcessDashboard
ApplyStep(p) ==
  /\ Observed /\ Running
  /\ ReadsState
  /\ pc[p] = "apply"
  /\ \E s1 \in ReadSelectors, s2 \in ReadSelectors :
       LET a == ApplyOne(s1, s2, list[p][idx[p]], known[p])
       IN /\ trace' = [trace EXCEPT ![p] = @ \o a.trace]
          /\ IF a.next = "skip" THEN EndIteration(p, a.failed)
             ELSE pc' = [pc EXCEPT ![p] = a.next] /\ idx' = idx
  /\ UNCHANGED << env, config, grafana, req, client, instance, known, list, todel, ret, entry,
                  nst, nch, ncalls, nfail, hist >>

\* lines 249-250 and 162-168: the read of r.state.DashboardNamespaceSelector
\* and, when it is set, the lookup of the Namespace object in the cluster
NamespaceLookup(p) ==
  /\ Observed /\ Running
  /\ ReadsState
  /\ pc[p] = "nscheck"
  /\ \E n1 \in ReadNamespaceSelector :
     \E f \in {NoFailure} \cup Failures({"Namespace"}) :
       LET a == NamespaceGet(n1, list[p][idx[p]], OutcomeAt(f, "Namespace"))
       IN /\ a.failed <=> f # NoFailure
          /\ a.failed => nfail < MaxFailures
          /\ nfail' = IF a.failed THEN nfail + 1 ELSE nfail
          /\ trace' = [trace EXCEPT ![p] = @ \o a.trace]
          /\ IF a.next = "skip" THEN EndIteration(p, TRUE)
             ELSE pc' = [pc EXCEPT ![p] = a.next] /\ idx' = idx
  /\ UNCHANGED << env, config, grafana, req, client, instance, known, list, todel, ret, entry,
                  nst, nch, ncalls, hist >>

\* lines 170-174 and 251-259: the read of r.state.DashboardNamespaceSelector
\* by checkNamespaceLabels and the match of the labels of the Namespace
NamespaceMatch(p) ==
  /\ Observed /\ Running
  /\ ReadsState
  /\ pc[p] = "nsmatch"
  /\ \E n2 \in ReadNamespaceSelector :
       LET a == NamespaceCheck(n2, list[p][idx[p]])
       IN /\ trace' = [trace EXCEPT ![p] = @ \o a.trace]
          /\ IF a.next = "skip" THEN EndIteration(p, a.failed)
             ELSE pc' = [pc EXCEPT ![p] = a.next] /\ idx' = idx
  /\ UNCHANGED << env, config, grafana, req, client, instance, known, list, todel, ret, entry,
                  nst, nch, ncalls, nfail, hist >>

\* lines 262-267: GetOrCreateNamespaceFolder
FolderStep(p) ==
  /\ Observed /\ Running
  /\ pc[p] = "folder"
  /\ \E f \in {NoFailure} \cup Failures({"Folder"}) :
       LET d == list[p][idx[p]]
           a == FolderOne(d, client[p], OutcomeAt(f, "Folder"))
       IN /\ a.failed <=> f # NoFailure
          /\ a.failed => nfail < MaxFailures
          /\ nfail' = IF a.failed THEN nfail + 1 ELSE nfail
          /\ trace' = [trace EXCEPT ![p] = @ \o a.trace]
          /\ folders' = IF a.folder THEN folders \cup {d.Namespace} ELSE folders
          /\ IF a.next = "skip" THEN EndIteration(p, TRUE)
             ELSE pc' = [pc EXCEPT ![p] = a.next] /\ idx' = idx
  /\ UNCHANGED << env, config, remote, req, client, instance, known, list, todel, ret, entry,
                  nst, nch, ncalls, hist, nrace >>

\* CreateStep storing the entry whatever the call returned
CreateStep_SpeculativeWrite(p) ==
  /\ Observed /\ Running
  /\ pc[p] = "create"
  /\ \E f \in {NoFailure} \cup Failures({"Create"}) :
       LET d == list[p][idx[p]]
           k == KeyOf(d)
           oc == OutcomeAt(f, "Create")
       IN /\ registry' = AddDashboard(registry, d)
          /\ IF oc # "ok"
             THEN /\ nfail < MaxFailures
                  /\ nfail' = nfail + 1
                  /\ trace' = [trace EXCEPT ![p] =
                                 @ \o << Ev("CreateOrUpdateDashboard", k, FALSE),
                                         Ev("log.Error", k, TRUE) >>
                                   \o manageError(k, oc)]
                  /\ remote' = remote
                  /\ EndIteration(p, TRUE)
             ELSE /\ nfail' = nfail
                  /\ trace' = [trace EXCEPT ![p] =
                                 @ \o << Ev("CreateOrUpdateDashboard", k, TRUE) >>]
                  /\ remote' = remote \cup {UIDOf(d)}
                  /\ pc' = [pc EXCEPT ![p] = "success"]
                  /\ idx' = idx
  /\ UNCHANGED << env, plugins, synced, folders, req, client, instance, known, list, todel, ret,
                  entry, nst, nch, ncalls, hist, nrace >>

\* lines 276-281: CreateOrUpdateDashboard and, when it fails, the report of
\* the error
CreateStep(p) ==
  /\ Observed /\ Running
  /\ pc[p] = "create"
  /\ \E f \in {NoFailure} \cup Failures({"Create"}) :
       LET d == list[p][idx[p]]
           k == KeyOf(d)
           oc == OutcomeAt(f, "Create")
       IN /\ registry' = registry
          /\ IF oc # "ok"
             THEN /\ nfail < MaxFailures
                  /\ nfail' = nfail + 1
                  /\ trace' = [trace EXCEPT ![p] =
                                 @ \o << Ev("CreateOrUpdateDashboard", k, FALSE),
                                         Ev("log.Error", k, TRUE) >>
                                   \o manageError(k, oc)]
                  /\ remote' = remote
                  /\ EndIteration(p, TRUE)
             ELSE /\ nfail' = nfail
                  /\ trace' = [trace EXCEPT ![p] =
                                 @ \o << Ev("CreateOrUpdateDashboard", k, TRUE) >>]
                  /\ remote' = remote \cup {UIDOf(d)}
                  /\ pc' = [pc EXCEPT ![p] = "success"]
                  /\ idx' = idx
  /\ UNCHANGED << env, plugins, synced, folders, req, client, instance, known, list, todel, ret,
                  entry, nst, nch, ncalls, hist, nrace >>

\* manageSuccess, lines 304-308: the Normal event and r.config.AddDashboard
ManageSuccess(p) ==
  /\ Observed /\ Running
  /\ pc[p] = "success"
  /\ LET d == list[p][idx[p]]
     IN /\ trace' = [trace EXCEPT ![p] = @ \o << Ev("event:Normal", KeyOf(d), TRUE),
                                                  Ev("AddDashboard", KeyOf(d), TRUE) >>]
        /\ registry' = AddDashboard(registry, d)
  /\ pc' = [pc EXCEPT ![p] = "plug"]
  /\ UNCHANGED << env, plugins, synced, grafana, req, locals, ret, entry,
                  nst, nch, ncalls, nfail, hist, nrace >>

\* r.config.SetPluginsFor: line 309 of manageSuccess, and line 245 for a
\* dashboard whose content is the known one; the iteration ends
SetPlugins(p) ==
  /\ Observed /\ Running
  /\ pc[p] = "plug"
  /\ LET d == list[p][idx[p]]
     IN /\ trace' = [trace EXCEPT ![p] = @ \o << Ev("SetPluginsFor", KeyOf(d), TRUE) >>]
        /\ plugins' = SetPluginsFor(plugins, d)
  /\ EndIteration(p, FALSE)
  /\ UNCHANGED << env, registry, synced, grafana, req, client, instance, known, list, todel, ret, entry,
                  nst, nch, ncalls, nfail, hist, nrace >>

\* the head of the body of the loop over dashboardsToDelete for the entry e
\* (lines 286-290), o being the outcome of DeleteDashboardByUID and cl the
\* client: a failed call is logged and the body goes on
DeleteOne(e, cl, o) ==
  LET k == KeyOf(e)
  IN IF cl = "wild"
     THEN [trace |-> << Ev("panic", k, FALSE) >>, deleted |-> FALSE, next |-> "panic",
           failed |-> FALSE]
     ELSE [trace |-> << Ev("DeleteDashboardByUID", k, o = "ok") >>
                       \o (IF o = "ok" THEN << >> ELSE << Ev("log.Error", k, TRUE) >>),
           deleted |-> (o = "ok"),
           next |-> "unplug",
           failed |-> (o # "ok")]

\* one iteration of the loop over dashboardsToDelete, lines 286-290: the
\* delete call
DeleteStep(p) ==
  /\ Observed /\ Running
  /\ pc[p] = "delete"
  /\ \E f \in {NoFailure} \cup Failures({"Delete"}) :
       LET e == todel[p][idx[p]]
           x == DeleteOne(e, client[p], OutcomeAt(f, "Delete"))
       IN /\ x.failed <=> f # NoFailure
          /\ x.failed => nfail < MaxFailures
          /\ nfail' = IF x.failed THEN nfail + 1 ELSE nfail
          /\ remote' = IF x.deleted THEN remote \ {e.UID} ELSE remote
          /\ trace' = [trace EXCEPT ![p] = @ \o x.trace]
          /\ pc' = [pc EXCEPT ![p] = x.next]
  /\ UNCHANGED << env, config, folders, req, locals, ret, entry, nst, nch, ncalls, hist, nrace >>

\* line 291: r.config.RemovePluginsFor, whether or not the delete call failed
RemovePlugins(p) ==
  /\ Observed /\ Running
  /\ pc[p] = "unplug"
  /\ LET e == todel[p][idx[p]]
     IN /\ trace' = [trace EXCEPT ![p] = @ \o << Ev("RemovePluginsFor", KeyOf(e), TRUE) >>]
        /\ plugins' = RemovePluginsFor(plugins, e.Namespace, e.Name)
  /\ pc' = [pc EXCEPT ![p] = "remove"]
  /\ UNCHANGED << env, registry, synced, grafana, req, locals, ret, entry,
                  nst, nch, ncalls, nfail, hist, nrace >>

\* line 292: r.config.RemoveDashboard, whether or not the delete call failed;
\* the iteration ends
RemoveEntry(p) ==
  /\ Observed /\ Running
  /\ pc[p] = "remove"
  /\ LET e == todel[p][idx[p]]
     IN /\ trace' = [trace EXCEPT ![p] = @ \o << Ev("RemoveDashboard", KeyOf(e), TRUE) >>]
        /\ registry' = RemoveDashboard(registry, e.Namespace, e.Name)
  /\ pc' = [pc EXCEPT ![p] = IF idx[p] < Len(todel[p]) THEN "delete" ELSE "finish"]
  /\ idx' = [idx EXCEPT ![p] = IF idx[p] < Len(todel[p]) THEN idx[p] + 1 ELSE 0]
  /\ UNCHANGED << env, plugins, synced, grafana, req, client, instance, known, list, todel, ret, entry,
                  nst, nch, ncalls, nfail, hist, nrace >>

\* Finish leaving the synced marker alone after a pass with a failed call
Finish_NoMarkerAfterFailure(p) ==
  /\ Observed /\ Running
  /\ pc[p] = "finish"
  /\ synced' = IF CallFailed(trace[p]) THEN synced ELSE TRUE
  /\ trace' = [trace EXCEPT ![p] =
                 IF CallFailed(trace[p]) THEN @
                 ELSE @ \o << Ev("AddConfigItem", <<req[p].Namespace, req[p].Name>>, TRUE) >>]
  /\ ret' = [ret EXCEPT ![p] = Result(FALSE, 0, FALSE)]
  /\ pc' = [pc EXCEPT ![p] = "returned"]
  /\ lastpass' = [lastpass EXCEPT ![req[p].Namespace] =
                    IF clean[p] THEN PassRecord(trace[p]) ELSE NoPass]
  /\ UNCHANGED << env, registry, plugins, grafana, req, locals, entry, nst, nch, ncalls, nfail,
                  prior, clean, nrace >>

\* the end of reconcileDashboards: the synced marker and the return
Finish(p) ==
  /\ Observed /\ Running
  /\ pc[p] = "finish"
  /\ synced' = TRUE
  /\ trace' = [trace EXCEPT ![p] = @ \o << Ev("AddConfigItem", <<req[p].Namespace, req[p].Name>>, TRUE) >>]
  /\ ret' = [ret EXCEPT ![p] = Result(FALSE, 0, FALSE)]
  /\ pc' = [pc EXCEPT ![p] = "returned"]
  /\ lastpass' = [lastpass EXCEPT ![req[p].Namespace] =
                    IF clean[p] THEN PassRecord(trace[p]) ELSE NoPass]
  /\ UNCHANGED << env, registry, plugins, grafana, req, locals, entry, nst, nch, ncalls, nfail,
                  prior, clean, nrace >>

(* ---------------------------- environment ------------------------------ *)
Namespaces == {k[1] : k \in Keys}

\* a change of the environment: no pass counts as repeated without change
Changed ==
  /\ lastpass' = [ns \in Namespaces |-> NoPass]
  /\ clean' = [q \in Procs |-> FALSE]
  /\ UNCHANGED prior

\* the goroutine reading common.ControllerEvents receives a controller state
\* and begins to store it into r.state (line 90)
StateChange ==
  /\ Observed /\ Running
  /\ nst < MaxStates
  /\ storing = {}
  /\ \E s \in Snapshots : s # state /\ storing' = {s}
  /\ nst' = nst + 1
  /\ Changed
  /\ UNCHANGED << state, cluster, config, grafana, pc, req, locals, ret, entry, trace,
                  nch, ncalls, nfail, nrace >>

\* the store of line 90 is complete
StateStored ==
  /\ Observed /\ Running
  /\ storing # {}
  /\ state' \in storing
  /\ storing' = {}
  /\ Changed
  /\ UNCHANGED << cluster, config, grafana, pc, req, locals, ret, entry, trace,
                  nst, nch, ncalls, nfail, nrace >>

\* a GrafanaDashboard resource is created, changed or deleted in the cluster
ResourceChange ==
  /\ Observed /\ Running
  /\ nch < MaxChanges
  /\ \E k \in Keys : \E v \in ResourceValues(k) :
       /\ v # cluster[k]
       /\ cluster' = [cluster EXCEPT ![k] = v]
  /\ nch' = nch + 1
  /\ Changed
  /\ UNCHANGED << state, storing, config, grafana, pc, req, locals, ret, entry, trace,
                  nst, ncalls, nfail, nrace >>

\* the caller p takes the result of its call; the record of the call is dropped
Return(p) ==
  /\ pc[p] = "returned"
  /\ pc' = [pc EXCEPT ![p] = "idle"]
  /\ ret' = [ret EXCEPT ![p] = NoResult]
  /\ entry' = [entry EXCEPT ![p] = AtEntry(ZeroState, {}, {})]
  /\ trace' = [trace EXCEPT ![p] = << >>]
  /\ req' = [req EXCEPT ![p] = [Namespace |-> "", Name |-> ""]]
  /\ NoLocals(p)
  /\ prior' = [prior EXCEPT ![p] = NoPass]
  /\ clean' = [clean EXCEPT ![p] = FALSE]
  /\ UNCHANGED << env, config, grafana, nst, nch, ncalls, nfail, lastpass, nrace >>

\* the controller worker takes a request of the work queue
WorkerReconcile ==
  \E k \in Requested : Reconcile("worker", [Namespace |-> k[1], Name |-> k[2]])

\* the ticker goroutine: sendEmptyRequest
TickerReconcile ==
  Reconcile("ticker", [Namespace |-> OperatorNamespace, Name |-> ""])

(* --------------------------- specification ----------------------------- *)
InitCluster == [k \in Keys |-> Resource(1, {"app=grafana"})]

\* what is the same at the start of every specification
InitCalls ==
  /\ storing = {}
  /\ cluster = InitCluster
  /\ pc = [p \in Procs |-> "idle"]
  /\ req = [p \in Procs |-> [Namespace |-> "", Name |-> ""]]
  /\ client = [p \in Procs |-> "none"]
  /\ instance = [p \in Procs |-> NoInstance]
  /\ known = [p \in Procs |-> {}]
  /\ list = [p \in Procs |-> << >>]
  /\ todel = [p \in Procs |-> << >>]
  /\ idx = [p \in Procs |-> 0]
  /\ ret = [p \in Procs |-> NoResult]
  /\ entry = [p \in Procs |-> AtEntry(ZeroState, {}, {})]
  /\ trace = [p \in Procs |-> << >>]
  /\ nst = 0
  /\ nch = 0
  /\ ncalls = 0
  /\ nfail = 0
  /\ nrace = 0
  /\ lastpass = [ns \in Namespaces |-> NoPass]
  /\ prior = [p \in Procs |-> NoPass]
  /\ clean = [p \in Procs |-> FALSE]

Init ==
  /\ state = ZeroState
  /\ registry = {}
  /\ plugins = {}
  /\ synced = FALSE
  /\ remote = {}
  /\ folders = {}
  /\ InitCalls

Next ==
  \/ StateChange
  \/ StateStored
  \/ ResourceChange
  \/ WorkerReconcile
  \/ TickerReconcile
  \/ \E p \in Procs : InstanceLookup(p)
  \/ \E p \in Procs : MatchInstance(p)
  \/ \E p \in Procs : GetKnownDashboards(p)
  \/ \E p \in Procs : ListDashboards(p)
  \/ \E p \in Procs : ApplyStep(p)
  \/ \E p \in Procs : NamespaceLookup(p)
  \/ \E p \in Procs : NamespaceMatch(p)
  \/ \E p \in Procs : FolderStep(p)
  \/ \E p \in Procs : CreateStep(p)
  \/ \E p \in Procs : ManageSuccess(p)
  \/ \E p \in Procs : SetPlugins(p)
  \/ \E p \in Procs : DeleteStep(p)
  \/ \E p \in Procs : RemovePlugins(p)
  \/ \E p \in Procs : RemoveEntry(p)
  \/ \E p \in Procs : Finish(p)
  \/ \E p \in Procs : Return(p)

Spec == Init /\ [][Next]_vars

\* The operator some time after its start: the first controller state has
\* been delivered and a resync of the operator namespace has submitted the
\* dashboards of that namespace.
SyncedRegistry ==
  {Ref(k[1], k[2], k, Fingerprint(InitCluster[k].Json)) : k \in {q \in Keys : q[1] = OperatorNamespace}}

InitSynced ==
  /\ state = ControllerState(TRUE, "http://grafana", "admin", "secret", AppSelectors, NilSelector)
  /\ registry = SyncedRegistry
  /\ plugins = {KeyOf(e) : e \in SyncedRegistry}
  /\ synced = TRUE
  /\ remote = {e.UID : e \in SyncedRegistry}
  /\ folders = {OperatorNamespace}
  /\ InitCalls

SpecSynced == InitSynced /\ [][Next]_vars

(* ======================= properties of the claims ====================== *)
\* the call of the caller p has returned and its record is still there
Returned(p) == pc[p] = "returned"

\* the positions of the trace t that hold the operation op on the key k
At(t, op, k) == {n \in 1..Len(t) : t[n].op = op /\ t[n].key = k}

\* the trace t holds the operation op on the key k with the outcome ok
Did(t, op, k, ok) == \E n \in At(t, op, k) : t[n].ok = ok

\* the trace t holds the operation op
Some(t, op) == \E n \in 1..Len(t) : t[n].op = op

\* calls to the cluster listing and to Grafana; writes to r.config
ExternalCalls == {"List", "GetOrCreateNamespaceFolder", "CreateOrUpdateDashboard",
                  "DeleteDashboardByUID"}
ConfigWrites == {"AddDashboard", "RemoveDashboard", "SetPluginsFor", "RemovePluginsFor",
                 "AddConfigItem"}
Quiet(t) == \A n \in 1..Len(t) : t[n].op \notin ExternalCalls \cup ConfigWrites

\* the call of p ran reconcileDashboards to its end
RanPass(p) == Returned(p) /\ Some(trace[p], "AddConfigItem")

ListedKeys(p) == {KeyOf(list[p][n]) : n \in 1..Len(list[p])}
EntryKeys(reg, ns) == {KeyOf(e) : e \in GetDashboards(reg, ns)}

\* C1 as stated: a call entered while the readiness flag is false returns
\* requeue-after-delay without error, makes no external call and leaves the
\* Registry as it was.
C1_NotReadyRequeuesAfterDelay ==
  \A p \in Procs :
    (Returned(p) /\ entry[p].ready = FALSE)
      => /\ ret[p] = Result(FALSE, RequeueDelay, FALSE)
         /\ Quiet(trace[p])
         /\ registry = entry[p].registry

\* C1 as amended: a call entered while the readiness flag is false returns the
\* no-requeue result (Requeue false, no delay, no error), makes no external
\* call and writes nothing to r.config.
C1_NotReadyNoRequeue ==
  \A p \in Procs :
    (Returned(p) /\ entry[p].ready = FALSE)
      => /\ ret[p] = Result(FALSE, 0, FALSE)
         /\ Quiet(trace[p])

\* a call has returned that was entered not ready with usable credentials and
\* selectors, so that only the readiness gate stopped it
C1_Witness ==
  \E p \in Procs :
    /\ Returned(p)
    /\ entry[p].ready = FALSE
    /\ entry[p].credentials
    /\ ~entry[p].nilSelectors

\* C2 as stated, for a pass that runs alone: for an entry of the delete set, a
\* successful delete call removes the entry and its plugin metadata, a failed
\* one leaves the entry in the Registry as it was.
C2_FailedDeleteKeepsEntry ==
  \A p \in Procs :
    (RanPass(p) /\ clean[p])
      => \A e \in known[p] :
           /\ Did(trace[p], "DeleteDashboardByUID", KeyOf(e), TRUE)
                => (e \notin registry /\ KeyOf(e) \notin plugins)
           /\ Did(trace[p], "DeleteDashboardByUID", KeyOf(e), FALSE)
                => e \in registry

\* C3: a pass issues exactly one delete call for every Registry entry of the
\* request namespace (as the pass read the Registry) that the listing does not
\* hold, and none for any other dashboard; a listed dashboard is never deleted.
C3_DeleteSetExact ==
  \A p \in Procs :
    RanPass(p) =>
      \A k \in Keys :
        Cardinality({n \in 1..Len(trace[p]) :
                       trace[p][n].op = "DeleteDashboardByUID" /\ trace[p][n].key = k})
          = IF k \in EntryKeys(known[p], req[p].Namespace) \ ListedKeys(p)
            THEN 1 ELSE 0

\* a pass has deleted an entry while it kept a listed dashboard that has an
\* entry
C3_Witness ==
  \E p \in Procs :
    /\ RanPass(p)
    /\ Some(trace[p], "DeleteDashboardByUID")
    /\ EntryKeys(known[p], req[p].Namespace) \cap ListedKeys(p) # {}

Writes(t) == Some(t, "CreateOrUpdateDashboard") \/ Some(t, "DeleteDashboardByUID")

\* C4 as stated: a pass that follows a pass over the same namespace, nothing
\* having changed since that pass began, issues no create-or-update call and
\* no delete call.
C4_SecondPassWritesNothing ==
  \A p \in Procs :
    (RanPass(p) /\ clean[p] /\ prior[p].ran) => ~Writes(trace[p])

\* C4 as amended: a pass that follows a pass over the same namespace, nothing
\* having changed since that pass began, issues no delete call, and no
\* create-or-update call but for the dashboards whose namespace lookup,
\* folder call or create-or-update call failed in that pass.
C4_SecondPassWritesOnlyRetries ==
  \A p \in Procs :
    (RanPass(p) /\ clean[p] /\ prior[p].ran)
      => /\ ~Some(trace[p], "DeleteDashboardByUID")
         /\ \A k \in Keys :
              At(trace[p], "CreateOrUpdateDashboard", k) # {} => k \in prior[p].failed

\* a second pass without change, after a pass that left one dashboard
\* unsubmitted, has submitted that dashboard and found another unchanged
C4_Witness ==
  \E p \in Procs : \E k \in Keys :
    /\ RanPass(p) /\ clean[p] /\ prior[p].ran
    /\ k \in prior[p].failed
    /\ At(trace[p], "CreateOrUpdateDashboard", k) # {}
    /\ Some(trace[p], "ProcessDashboard:nil")

\* what the step of the caller p has added to its trace
NewTrace(p) == SubSeq(trace'[p], Len(trace[p]) + 1, Len(trace'[p]))

\* the caller p makes the step of the apply loop that begins an iteration
Applies(p) == pc[p] = "apply" /\ trace'[p] # trace[p]

\* the entry AddDashboard stores for the listed dashboard d
EntryOf(d) == Ref(d.Namespace, d.Name, UIDOf(d), Fingerprint(d.Json))

\* the trace t shows the dashboard of key k in scope, changed and not stopped
\* by the namespace check
Submittable(t, k) ==
  /\ Did(t, "isMatch", k, TRUE)
  /\ Did(t, "ProcessDashboard:payload", k, TRUE)
  /\ ~Did(t, "checkNamespaceLabels", k, FALSE)
  /\ ~Did(t, "matchesNamespaceLabels", k, FALSE)

\* C5: a failure for one dashboard does not stop the pass: in a pass that ran
\* to its end every listed dashboard was handled, every listed dashboard that
\* is in scope and changed got its folder call and, the folder call
\* succeeding, its create-or-update call, and every dashboard whose
\* create-or-update call succeeded was reported successful and written to the
\* Registry; and the step that writes it stores the entry with the
\* fingerprint of the dashboard.
C5_PartialFailureIsolation ==
  /\ [](\A p \in Procs :
          RanPass(p) =>
            \A k \in ListedKeys(p) :
              /\ At(trace[p], "isMatch", k) # {}
              /\ Submittable(trace[p], k)
                   => At(trace[p], "GetOrCreateNamespaceFolder", k) # {}
              /\ Did(trace[p], "GetOrCreateNamespaceFolder", k, TRUE)
                   => At(trace[p], "CreateOrUpdateDashboard", k) # {}
              /\ Did(trace[p], "CreateOrUpdateDashboard", k, TRUE)
                   => /\ Did(trace[p], "event:Normal", k, TRUE)
                      /\ Did(trace[p], "AddDashboard", k, TRUE))
  /\ [][\A p \in Procs :
          (pc[p] = "success" /\ pc'[p] # "success")
            => EntryOf(list[p][idx[p]]) \in registry']_vars

\* a pass over two dashboards has ended in which the create-or-update call of
\* the first failed and the one of the second succeeded
C5_Witness ==
  \E p \in Procs :
    /\ RanPass(p)
    /\ Len(list[p]) = 2
    /\ Did(trace[p], "CreateOrUpdateDashboard", KeyOf(list[p][1]), FALSE)
    /\ Did(trace[p], "CreateOrUpdateDashboard", KeyOf(list[p][2]), TRUE)
    /\ Did(trace[p], "event:Normal", KeyOf(list[p][2]), TRUE)

\* every listed dashboard of the pass passed both selector checks and every
\* call of the pass succeeded
AllGood(p) ==
  \A n \in 1..Len(trace[p]) :
    \/ trace[p][n].ok
    \/ trace[p][n].op \in {"Get:NotFound", "errors.IsConflict"}

\* the fingerprint the Registry reg holds for the key k, "" if none
StoredHash(reg, k) ==
  IF \E e \in reg : KeyOf(e) = k THEN (CHOOSE e \in reg : KeyOf(e) = k).Hash ELSE ""

\* C6 as stated: after a pass in which every listed dashboard passed both
\* selector checks and every call succeeded, the Registry entries of the
\* namespace are the listed dashboards with their fingerprints; every entry
\* the listing does not hold was deleted remotely; a listed dashboard with the
\* stored fingerprint caused no create-or-update call, any other exactly one.
C6_FoldIn ==
  \A p \in Procs :
    (RanPass(p) /\ AllGood(p)) =>
      /\ GetDashboards(registry, req[p].Namespace) = {EntryOf(list[p][n]) : n \in 1..Len(list[p])}
      /\ \A k \in EntryKeys(known[p], req[p].Namespace) \ ListedKeys(p) :
           Did(trace[p], "DeleteDashboardByUID", k, TRUE) /\ k \notin remote
      /\ \A n \in 1..Len(list[p]) :
           Cardinality(At(trace[p], "CreateOrUpdateDashboard", KeyOf(list[p][n])))
             = IF StoredHash(known[p], KeyOf(list[p][n])) = Fingerprint(list[p][n].Json)
               THEN 0 ELSE 1

\* the namespace selector of the state st is set and the labels of the
\* namespace ns do not satisfy it
NamespaceOutOfScope(st, ns) ==
  /\ ~st.DashboardNamespaceSelector.isNil
  /\ st.DashboardNamespaceSelector.valid
  /\ ~(st.DashboardNamespaceSelector.matchLabels \subseteq NamespaceLabels(ns))

\* the operations on the dashboard of a resource that the namespace check
\* guards
Guarded == {"GetOrCreateNamespaceFolder", "CreateOrUpdateDashboard", "DeleteDashboardByUID",
            "AddDashboard", "RemoveDashboard"}

\* C7: a pass makes no folder call, no create-or-update call, no delete call
\* and no Registry write for a dashboard whose namespace check it found not
\* satisfied, and no pass deletes a listed dashboard; and, while no store of
\* r.state is under way, under a namespace selector the check is made, and
\* the check for a dashboard whose namespace does not satisfy the selector
\* ends the iteration: it does not go on to the folder call and leaves the
\* Registry and Grafana as they are.
C7_NamespaceSkip ==
  /\ [](\A p \in Procs : \A k \in ListedKeys(p) :
          /\ At(trace[p], "DeleteDashboardByUID", k) = {}
          /\ Did(trace[p], "matchesNamespaceLabels", k, FALSE)
               => \A n \in 1..Len(trace[p]) :
                    trace[p][n].key = k => trace[p][n].op \notin Guarded)
  /\ [][\A p \in Procs :
          /\ (pc[p] = "nscheck" /\ pc'[p] # "nscheck" /\ storing = {}
                /\ ~state.DashboardNamespaceSelector.isNil)
               => pc'[p] # "folder"
          /\ (pc[p] = "nsmatch" /\ pc'[p] # "nsmatch" /\ storing = {}
                /\ NamespaceOutOfScope(state, list[p][idx[p]].Namespace))
               => /\ Did(NewTrace(p), "matchesNamespaceLabels", KeyOf(list[p][idx[p]]), FALSE)
                  /\ pc'[p] \notin {"folder", "create", "success"}
                  /\ registry' = registry
                  /\ remote' = remote
                  /\ folders' = folders]_vars

\* with no read of r.state racing a store, a changed dashboard that matches
\* the resource selectors was skipped because the labels of its namespace do
\* not satisfy the namespace selector
C7_Witness ==
  \E p \in Procs : \E k \in Keys :
    /\ nrace = 0 /\ storing = {}
    /\ NamespaceOutOfScope(state, k[1])
    /\ Did(trace[p], "isMatch", k, TRUE)
    /\ Did(trace[p], "ProcessDashboard:payload", k, TRUE)
    /\ Did(trace[p], "matchesNamespaceLabels", k, FALSE)

\* the labels ls match at least one selector of the selector set s
MatchesSome(s, ls) ==
  /\ ~s.isNil
  /\ \E n \in 1..Len(s.items) : s.items[n].matchLabels \subseteq ls

\* C8: while no store of r.state is under way, the iteration for a dashboard
\* finds it in scope exactly if its labels match at least one of the
\* selectors; for a dashboard out of scope, and so for every dashboard when
\* the selector set is empty or nil, it does nothing else: no create-or-update
\* call follows and no entry is written.
C8_SelectorEligibility ==
  [][\A p \in Procs :
       (Applies(p) /\ storing = {}) =>
         LET d == list[p][idx[p]]
             eligible == MatchesSome(state.DashboardSelectors, d.Labels)
         IN /\ NewTrace(p)[1] = Ev("isMatch", KeyOf(d), eligible)
            /\ ~eligible => /\ Len(NewTrace(p)) = 1
                            /\ pc'[p] \notin {"nscheck", "nsmatch", "folder", "create",
                                               "success", "plug"}
                            /\ registry' = registry
                            /\ remote' = remote]_vars

\* with no read of r.state racing a store and under a set of two selectors,
\* one pass found a dashboard in scope that matches the second selector only,
\* and another dashboard out of scope
C8_Witness ==
  \E p \in Procs : \E k1 \in Keys, k2 \in Keys :
    /\ nrace = 0 /\ storing = {}
    /\ Len(state.DashboardSelectors.items) = 2
    /\ Did(trace[p], "isMatch", k1, TRUE)
    /\ Did(trace[p], "isMatch", k2, FALSE)

\* the Registry has an entry for the key k
HasEntry(k) == \E e \in registry : KeyOf(e) = k

\* C9 as stated: between passes the Registry has an entry for a dashboard
\* exactly if Grafana holds the dashboard.
C9_RegistryIffRemote ==
  (\A q \in Procs : pc[q] = "idle") => \A k \in Keys : HasEntry(k) <=> k \in remote

\* C10 as stated: no two passes over the same namespace are in flight at the
\* same time.
C10_OnePassAtATime ==
  \A p \in Procs : \A q \in Procs \ {p} :
    ~(InPass(p) /\ InPass(q) /\ req[p].Namespace = req[q].Namespace)

\* the listing of the call of p succeeded
Listed(p) == Did(trace[p], "List", <<req[p].Namespace, req[p].Name>>, TRUE)

\* C11: the step in which the listing of a call fails ends the call with the
\* error of the listing; the call has made no call to Grafana and written
\* nothing to r.config (no entry, no plugin metadata, no synced marker), and
\* the step leaves the Registry and Grafana as they are.
C11_ListingFailureAborts ==
  [][\A p \in Procs :
       (pc[p] = "list" /\ Did(NewTrace(p), "List", <<req[p].Namespace, req[p].Name>>, FALSE))
         => /\ pc'[p] = "returned"
            /\ ret'[p] = Result(FALSE, 0, TRUE)
            /\ \A n \in 1..Len(trace'[p]) :
                 trace'[p][n].op \in {"Get", "Get:NotFound", "isMatch:request", "List"}
            /\ registry' = registry
            /\ plugins' = plugins
            /\ synced' = synced
            /\ remote' = remote
            /\ folders' = folders]_vars

\* the listing of a call failed while the Registry held entries of the
\* namespace
C11_Witness ==
  \E p \in Procs :
    /\ Returned(p)
    /\ Did(trace[p], "List", <<req[p].Namespace, req[p].Name>>, FALSE)
    /\ ret[p].err
    /\ GetDashboards(registry, req[p].Namespace) # {}

\* the number of times the trace t holds the operation op
Count(t, op) == Cardinality({n \in 1..Len(t) : t[n].op = op})

\* C12: a call that returns after its listing succeeded has set the synced
\* marker once, as the last thing it did, after the iterations for every
\* listed dashboard and for every dashboard to delete, whatever failed; a call
\* that runs no pass, or whose listing failed, does not set it; and the marker
\* is set by nothing but the end of a pass.
C12_SyncedOncePerPass ==
  /\ [](\A p \in Procs :
          /\ InPass(p) => ~Some(trace[p], "AddConfigItem")
          /\ (Returned(p) /\ ~Listed(p)) => ~Some(trace[p], "AddConfigItem")
          /\ (Returned(p) /\ Listed(p))
               => /\ Count(trace[p], "AddConfigItem") = 1
                  /\ trace[p][Len(trace[p])].op = "AddConfigItem"
                  /\ synced
                  /\ Count(trace[p], "isMatch") = Len(list[p])
                  /\ Count(trace[p], "DeleteDashboardByUID") = Len(todel[p])
                  /\ Count(trace[p], "RemoveDashboard") = Len(todel[p]))
  /\ [][synced' # synced => \E p \in Procs : pc[p] = "finish" /\ pc'[p] = "returned"]_vars

\* a pass in which a call failed has set the marker
C12_Witness ==
  \E p \in Procs :
    /\ Returned(p) /\ Listed(p)
    /\ CallFailed(trace[p])
    /\ synced

\* the operator is in the state InitSynced starts from (Spec reaches it)
ReachesInitSynced ==
  /\ state = ControllerState(TRUE, "http://grafana", "admin", "secret", AppSelectors, NilSelector)
  /\ storing = {}
  /\ cluster = InitCluster
  /\ registry = SyncedRegistry
  /\ plugins = {KeyOf(e) : e \in SyncedRegistry}
  /\ synced = TRUE
  /\ remote = {e.UID : e \in SyncedRegistry}
  /\ folders = {OperatorNamespace}
  /\ \A p \in Procs : pc[p] = "idle"

\* C13 as stated, for the calls in which no call fails and the selectors stay
\* nil: a call entered while the resource selectors of the controller state
\* are nil makes no folder call, no create-or-update call and no delete call,
\* writes and removes no Registry entry, and returns no error.
C13_NilSelectorsNoOp ==
  \A p \in Procs :
    /\ (InCall(p) \/ Returned(p))
    /\ entry[p].nilSelectors
    /\ state.DashboardSelectors.isNil /\ storing = {}
    /\ ~CallFailed(trace[p])
    /\ ~Did(trace[p], "List", <<req[p].Namespace, req[p].Name>>, FALSE)
    => /\ \A n \in 1..Len(trace[p]) :
            trace[p][n].op \notin {"GetOrCreateNamespaceFolder", "CreateOrUpdateDashboard",
                                   "DeleteDashboardByUID", "AddDashboard", "RemoveDashboard"}
       /\ ~ret[p].err

\* C14: a call entered while the service is ready and the admin URL, the
\* username or the password is empty returns requeue-after-delay without
\* error, makes no call at all (no lookup, no listing, no call to Grafana),
\* writes nothing to r.config and leaves the Registry as it was.
C14_NoClientRequeuesAfterDelay ==
  \A p \in Procs :
    (Returned(p) /\ entry[p].ready /\ ~entry[p].credentials)
      => /\ ret[p] = Result(FALSE, RequeueDelay, FALSE)
         /\ trace[p] = << >>
         /\ registry = entry[p].registry

\* an empty-name request was stopped by the empty password of a ready state
\* that has the URL, the username and the selectors
C14_Witness ==
  \E p \in Procs :
    /\ Returned(p)
    /\ req[p].Name = ""
    /\ entry[p].ready
    /\ ~entry[p].credentials
    /\ storing = {} /\ nrace = 0
    /\ state.AdminUrl # "" /\ state.AdminUsername # "" /\ state.AdminPassword = ""
    /\ ~state.DashboardSelectors.isNil

\* the entries of the Registry reg for the keys other than k
Others(reg, k) == {e \in reg : KeyOf(e) # k}

\* the trace t holds a failure of the iteration for the key k
FailedFor(t, k) ==
  \/ Did(t, "ProcessDashboard:err", k, FALSE)
  \/ Did(t, "checkNamespaceLabels", k, FALSE)
  \/ Did(t, "GetOrCreateNamespaceFolder", k, FALSE)
  \/ Did(t, "CreateOrUpdateDashboard", k, FALSE)

\* C15: a call writes no Registry entry for a dashboard whose rendering,
\* namespace lookup, folder call or create-or-update call failed; and the only
\* steps that change the Registry are the removal of an entry of the delete
\* set and the write that follows a create-or-update call that returned
\* success, which changes the entry of that dashboard and no other.
C15_NoSpeculativeWrite ==
  /\ [](\A p \in Procs : \A k \in Keys :
          FailedFor(trace[p], k) => At(trace[p], "AddDashboard", k) = {})
  /\ [][registry' # registry =>
          \E p \in Procs :
            \/ pc[p] = "remove" /\ pc'[p] # "remove"
            \/ /\ pc[p] = "success" /\ pc'[p] # "success"
               /\ LET k == KeyOf(list[p][idx[p]])
                  IN /\ trace[p][Len(trace[p])] = Ev("CreateOrUpdateDashboard", k, TRUE)
                     /\ Others(registry', k) = Others(registry, k)]_vars

\* the create-or-update call failed for a changed dashboard that had an
\* entry, and the entry still holds the old fingerprint
C15_Witness ==
  \E p \in Procs : \E k \in Keys :
    /\ Returned(p)
    /\ Did(trace[p], "CreateOrUpdateDashboard", k, FALSE)
    /\ StoredHash(known[p], k) # ""
    /\ StoredHash(registry, k) = StoredHash(known[p], k)
    /\ cluster[k].present
    /\ Fingerprint(cluster[k].Json) # StoredHash(registry, k)

\* the caller p begins the loops of a pass in this step (its listing has
\* succeeded)
BeginsPass(p) == pc[p] = "list" /\ pc'[p] \in {"apply", "delete", "finish"}

\* C16 as stated, for the pass that follows the failed delete: a pass that
\* begins, no other pass running, while Grafana still holds a dashboard of the
\* namespace whose resource is gone from the cluster retries the deletion,
\* that is, has the dashboard in its delete set.
C16_LaterPassRetries ==
  [][\A p \in Procs :
       (BeginsPass(p) /\ \A q \in Procs \ {p} : ~InPass(q))
         => \A k \in Keys :
              (k[1] = req[p].Namespace /\ k \in remote /\ ~cluster[k].present)
                => \E n \in 1..Len(todel'[p]) : KeyOf(todel'[p][n]) = k]_vars

\* what reports an error for a dashboard: the warning event and the error logs
ErrorReports == {"event:Warning", "log.Error", "log.Error:manageError"}

\* C17 as stated: the step that finds the error of a dashboard to be a
\* conflict reports nothing for the dashboard, neither a warning event nor an
\* error log; the step that finds it to be no conflict reports it.
C17_ConflictSuppressed ==
  [][\A p \in Procs :
       pc[p] \in {"apply", "nscheck", "nsmatch", "folder", "create"} =>
         LET k == KeyOf(list[p][idx[p]])
             t == NewTrace(p)
         IN /\ Did(t, "errors.IsConflict", k, TRUE)
                 => \A n \in 1..Len(t) : t[n].op \notin ErrorReports
            /\ Did(t, "errors.IsConflict", k, FALSE)
                 => \E n \in 1..Len(t) : t[n].op \in ErrorReports]_vars

\* the trace t of a pass over the dashboards ds agrees with the controller
\* state x: every dashboard was found in scope exactly if its labels match a
\* resource selector of x, the namespace check was made only if x has a
\* namespace selector, and no read of r.state ended in a fault
AgreesWith(t, ds, x) ==
  /\ \A n \in 1..Len(ds) : \A m \in At(t, "isMatch", KeyOf(ds[n])) :
       t[m].ok = MatchesSome(x.DashboardSelectors, ds[n].Labels)
  /\ (Some(t, "checkNamespaceLabels") \/ Some(t, "matchesNamespaceLabels"))
       => ~x.DashboardNamespaceSelector.isNil
  /\ ~Some(t, "panic")

\* C18 as stated: what a call reads in r.state comes from one snapshot: there
\* is a controller state, stored or being stored when the call was entered,
\* that every iteration of the pass agrees with.
C18_OneSnapshotPerCall ==
  \A p \in Procs :
    (InCall(p) \/ Returned(p) \/ pc[p] = "panic")
      => \E x \in entry[p].snapshots : AgreesWith(trace[p], list[p], x)

\* C19 as stated: a call whose listing succeeded returns no-requeue with a nil
\* error, whatever apply or delete call failed in it, and every step of a pass
\* leads on to its return: no step of a pass ends it in a fault.
C19_PassReturnsNoRequeue ==
  /\ [](\A p \in Procs : (Returned(p) /\ Listed(p)) => ret[p] = Result(FALSE, 0, FALSE))
  /\ [][\A p \in Procs : (InPass(p) /\ Listed(p)) => pc'[p] # "panic"]_vars

\* the state st lacks the admin URL, the username or the password
LacksCredentials(st) == st.AdminUrl = "" \/ st.AdminUsername = "" \/ st.AdminPassword = ""

\* the state st lets a named request through to the instance lookup
PastGates(st) ==
  /\ st.GrafanaReady
  /\ ~LacksCredentials(st)
  /\ ~st.DashboardSelectors.isNil

\* the caller p enters Reconcile in this step
Enters(p) == pc[p] = "idle" /\ pc'[p] # "idle"

\* the key of the request of the caller p
Request(p) == <<req[p].Namespace, req[p].Name>>

\* C20: while no store of r.state is under way, under a ready state with
\* credentials and selectors, a call for a named request looks the resource
\* up; a resource that is not found sends the call on to reconcileDashboards
\* and one that is found goes to the selector check; a resource that matches
\* none of the selectors ends the call with no-requeue and no error, after
\* the lookup alone: no listing, no call to Grafana, no write to r.config;
\* one that matches a selector sends the call on to reconcileDashboards.
C20_OutOfScopeRequestNoPass ==
  [][\A p \in Procs :
       (storing = {} /\ PastGates(state)) =>
         /\ (Enters(p) /\ req'[p].Name # "") => pc'[p] = "get"
         /\ (pc[p] = "get" /\ pc'[p] # "get" /\ ~Did(trace'[p], "Get", Request(p), FALSE))
              => pc'[p] = IF cluster[Request(p)].present THEN "match" ELSE "known"
         /\ (pc[p] = "match" /\ pc'[p] # "match")
              => IF MatchesSome(state.DashboardSelectors, instance[p].Labels)
                 THEN pc'[p] = "known"
                 ELSE /\ pc'[p] = "returned"
                      /\ ret'[p] = Result(FALSE, 0, FALSE)
                      /\ \A n \in 1..Len(trace'[p]) :
                           trace'[p][n].op \in {"Get", "isMatch:request"}
                      /\ registry' = registry
                      /\ plugins' = plugins
                      /\ synced' = synced
                      /\ remote' = remote
                      /\ folders' = folders]_vars

\* with no read of r.state racing a store, a named request for a resource out
\* of scope has returned while the Registry held the entry of that resource
C20_Witness ==
  \E p \in Procs :
    /\ Returned(p)
    /\ nrace = 0 /\ storing = {}
    /\ Did(trace[p], "isMatch:request", <<req[p].Namespace, req[p].Name>>, FALSE)
    /\ HasEntry(<<req[p].Namespace, req[p].Name>>)

====
